---- MODULE Spec2Model ----
(***************************************************************************)
(* create_simple_pdf.py: a script that draws a fixed "employee warning     *)
(* letter" on a reportlab canvas, saves it and reports the outcome.        *)
(*                                                                         *)
(* The canvas is modelled by the sequence of calls made on it, the console *)
(* by the sequence of lines printed.  Characters outside ASCII in the      *)
(* source's string literals are written as \uXXXX in the strings below.    *)
(***************************************************************************)
EXTENDS Integers, Sequences, FiniteSets, TLC

VARIABLES
    libAvailable,   \* whether "import reportlab..." (lines 7-10) can succeed
    warning_text,   \* the list iterated by the loop of lines 77-82
    pc,             \* position of the script
    hp,             \* number of header statements (lines 20-45) executed
    idx,            \* number of elements of warning_text the loop has consumed
    y_position,     \* the cursor of lines 46-82
    calls,          \* the calls made on the canvas, in order
    output,         \* the lines printed, in order
    raised,         \* the exception a step of create_test_pdf raised, or "none"
    uncaught,       \* the exception that left the script, or "none"
    lastRun         \* drawString triples of the previous successful run, or <<>>

vars == <<libAvailable, warning_text, pc, hp, idx, y_position, calls, output,
          raised, uncaught, lastRun>>

----------------------------------------------------------------------------
(* Bounds of the model *)

\* longest list the generalised loop is run on
MaxLines == 82

\* the days on which the script may be run: [year, month, day]
Dates == { <<2026, 11, 4>>, <<2025, 1, 31>> }

\* classes of exception a library call may raise
ExceptionKinds == {"ModuleNotFoundError", "ImportError", "OSError", "KeyboardInterrupt"}

----------------------------------------------------------------------------
(* Program constants *)

\* reportlab.lib.pagesizes.letter = (8.5 inch, 11 inch) at 72 points per inch
width == 612
height == 792

\* left margin of every drawString
LeftX == 50

\* bottom margin tested by the page-break check
BottomMargin == 50

\* distance from the top of the page to the first line of a page
TopOffset == 50

\* distance from the top of the page to the first body line
BodyOffset == 260

\* line pitch of the body
LineStep == 15

filename == "test_warning_letter.pdf"

----------------------------------------------------------------------------
(* datetime.now().strftime('%B %d, %Y') *)

MonthName ==
    <<"January", "February", "March", "April", "May", "June", "July",
      "August", "September", "October", "November", "December">>

\* %d: day of the month as a zero-padded decimal number
TwoDigits(n) == IF n < 10 THEN "0" \o ToString(n) ELSE ToString(n)

strftime(d) == MonthName[d[2]] \o " " \o TwoDigits(d[3]) \o ", " \o ToString(d[1])

----------------------------------------------------------------------------
(* Canvas calls *)

SetFont(font, size) == [op |-> "setFont", font |-> font, size |-> size]
DrawString(x, y, text) == [op |-> "drawString", x |-> x, y |-> y, text |-> text]
ShowPage == [op |-> "showPage"]
SaveCall == [op |-> "save"]
NewCanvas == [op |-> "Canvas", filename |-> filename, pagesize |-> <<width, height>>]
ImportDatetime == [op |-> "import"]

DateLine(d) == "Date: " \o strftime(d)

\* seeded fault: the title carries the day of the run too
HeaderDatedTitle(d) ==
    << SetFont("Helvetica", 12),
       SetFont("Helvetica-Bold", 16),
       DrawString(LeftX, height - 50, "Employee Warning Letter " \o strftime(d)),
       SetFont("Helvetica", 10),
       DrawString(LeftX, height - 80, "Acme Corporation"),
       DrawString(LeftX, height - 95, "123 Business Street"),
       DrawString(LeftX, height - 110, "San Francisco, CA 94105"),
       ImportDatetime,
       DrawString(LeftX, height - 140, DateLine(d)),
       DrawString(LeftX, height - 170, "To: John Doe"),
       DrawString(LeftX, height - 185, "Employee ID: 12345"),
       DrawString(LeftX, height - 200, "Department: Operations"),
       SetFont("Helvetica-Bold", 12),
       DrawString(LeftX, height - 230, "RE: Written Warning - Safety Protocol Violation"),
       SetFont("Helvetica", 10) >>

\* lines 20-45, the statements between the creation of the canvas and the body
Header(d) ==
    << SetFont("Helvetica", 12),
       SetFont("Helvetica-Bold", 16),
       DrawString(LeftX, height - 50, "Employee Warning Letter"),
       SetFont("Helvetica", 10),
       DrawString(LeftX, height - 80, "Acme Corporation"),
       DrawString(LeftX, height - 95, "123 Business Street"),
       DrawString(LeftX, height - 110, "San Francisco, CA 94105"),
       ImportDatetime,
       DrawString(LeftX, height - 140, DateLine(d)),
       DrawString(LeftX, height - 170, "To: John Doe"),
       DrawString(LeftX, height - 185, "Employee ID: 12345"),
       DrawString(LeftX, height - 200, "Department: Operations"),
       SetFont("Helvetica-Bold", 12),
       DrawString(LeftX, height - 230, "RE: Written Warning - Safety Protocol Violation"),
       SetFont("Helvetica", 10) >>

HeaderLen == Len(Header(<<2026, 11, 4>>))

\* lines 48-75
WarningText ==
    << "Dear Mr. Doe,",
       "",
       "This letter serves as a written warning regarding your violation of company",
       "safety protocols.",
       "",
       "On [Date], you were observed not wearing the required Personal Protective",
       "Equipment (PPE) while working in the chemical handling area. This constitutes",
       "a serious violation of our safety policies and California Occupational Safety",
       "and Health Administration (Cal/OSHA) regulations.",
       "",
       "Specifically, you violated:",
       "\\u2022 Cal. Lab. Code \\u00a7 6400 - General duty to provide safe workplace",
       "\\u2022 Cal. Code Regs. Tit. 8 \\u00a7 3380 - Personal Protective Equipment requirements",
       "",
       "This is your first written warning. Future violations may result in further",
       "disciplinary action, up to and including termination.",
       "",
       "You are required to:",
       "1. Review the company safety manual",
       "2. Complete additional safety training",
       "3. Sign this acknowledgment",
       "",
       "Please contact HR if you have any questions.",
       "",
       "Sincerely,",
       "HR Department" >>

\* a list of n lines: the literal list repeated and cut to length n
ListOfLength(n) == [i \in 1..n |-> WarningText[((i - 1) % Len(WarningText)) + 1]]

----------------------------------------------------------------------------
(* Console lines *)

SuccessLines ==
    << "\\u2705 PDF created successfully: " \o filename,
       "This PDF contains selectable text and should work with the HR Suite upload system." >>

NotInstalledLines ==
    << "\\u274c ReportLab not installed. Install with: pip install reportlab",
       "Alternatively, use the HTML version: open create_test_pdf.html" >>

\* line 96; str(e) is modelled by the name of e's class
ErrorLine(e) == "\\u274c Error creating PDF: " \o e

----------------------------------------------------------------------------
(* The state at the start of a run *)

Start(lib, text, last) ==
    /\ libAvailable = lib
    /\ warning_text = text
    /\ lastRun = last
    /\ pc = "import"
    /\ hp = 0
    /\ idx = 0
    /\ y_position = 0
    /\ calls = <<>>
    /\ output = <<>>
    /\ raised = "none"
    /\ uncaught = "none"

\* the script as written: the loop runs over the literal list
Init == \E lib \in BOOLEAN : Start(lib, WarningText, <<>>)

\* the loop generalised to a list of any length up to MaxLines
InitAnyList ==
    \E lib \in BOOLEAN, n \in 0..MaxLines : Start(lib, ListOfLength(n), <<>>)

----------------------------------------------------------------------------
(* Exceptions *)

\* the classes an exception of class k is an instance of
Bases(k) ==
    CASE k = "ModuleNotFoundError" ->
            {"ModuleNotFoundError", "ImportError", "Exception", "BaseException"}
      [] k = "ImportError" -> {"ImportError", "Exception", "BaseException"}
      [] k = "OSError" -> {"OSError", "Exception", "BaseException"}
      [] k = "KeyboardInterrupt" -> {"KeyboardInterrupt", "BaseException"}

IsInstance(k, cls) == cls \in Bases(k)

\* seeded fault: the except clauses of lines 92 and 95 swapped
HandlerExceptionFirst(k) ==
    IF IsInstance(k, "Exception") THEN "Exception"
    ELSE IF IsInstance(k, "ImportError") THEN "ImportError"
    ELSE "none"

\* lines 90-96: the first except clause that matches an exception of class k
Handler(k) ==
    IF IsInstance(k, "ImportError") THEN "ImportError"
    ELSE IF IsInstance(k, "Exception") THEN "Exception"
    ELSE "none"

\* an exception raised inside create_test_pdf unwinds to the try of line 90
Raise(k) ==
    /\ raised' = k
    /\ pc' = "except"

\* lines 7-11 and 89-91: the module-level imports run before the try block
ModuleImports ==
    /\ pc = "import"
    /\ IF libAvailable
          THEN /\ pc' = "canvas"
               /\ uncaught' = uncaught
          ELSE /\ pc' = "done"
               /\ uncaught' = "ModuleNotFoundError"
    /\ UNCHANGED <<libAvailable, warning_text, hp, idx, y_position, calls,
                   output, raised, lastRun>>

\* lines 15-17
CreateCanvas ==
    /\ pc = "canvas"
    /\ \/ /\ calls' = Append(calls, NewCanvas)
          /\ pc' = "header"
          /\ UNCHANGED raised
       \/ /\ \E k \in ExceptionKinds : Raise(k)
          /\ UNCHANGED calls
    /\ UNCHANGED <<libAvailable, warning_text, hp, idx, y_position, output,
                   uncaught, lastRun>>

\* lines 20-45, one statement at a time
HeaderStep ==
    /\ pc = "header"
    /\ hp < HeaderLen
    /\ \/ /\ \E d \in Dates :
                LET stmt == Header(d)[hp + 1]
                IN  calls' = IF stmt.op = "import" THEN calls ELSE Append(calls, stmt)
          /\ hp' = hp + 1
          /\ UNCHANGED <<pc, raised>>
       \/ /\ \E k \in ExceptionKinds : Raise(k)
          /\ UNCHANGED <<calls, hp>>
    /\ UNCHANGED <<libAvailable, warning_text, idx, y_position, output,
                   uncaught, lastRun>>

\* lines 46-75
StartBody ==
    /\ pc = "header"
    /\ hp = HeaderLen
    /\ y_position' = height - BodyOffset
    /\ idx' = 0
    /\ pc' = "loop"
    /\ UNCHANGED <<libAvailable, warning_text, hp, calls, output, raised,
                   uncaught, lastRun>>

\* seeded fault: the page is broken only once the cursor has left the page
NeedsNewPageBelowZero(y) == y < 0

\* seeded fault: the comparison of line 78 inverted
NeedsNewPageInverted(y) == y > BottomMargin

\* line 78
NeedsNewPage(y) == y < BottomMargin

\* seeded fault: empty lines are skipped instead of drawn
IterationCallsSkipEmpty(y, line) ==
    IF line = "" THEN << >>
    ELSE IF NeedsNewPage(y)
       THEN << ShowPage, DrawString(LeftX, height - TopOffset, line) >>
       ELSE << DrawString(LeftX, y, line) >>

\* lines 78-81: the calls one iteration makes, given the cursor and the line
IterationCalls(y, line) ==
    IF NeedsNewPage(y)
       THEN << ShowPage, DrawString(LeftX, height - TopOffset, line) >>
       ELSE << DrawString(LeftX, y, line) >>

\* seeded fault: line 82 moved into the else branch of the page-break check
NextYNoStepAfterBreak(y) ==
    IF NeedsNewPage(y) THEN height - TopOffset ELSE y - LineStep

\* seeded fault: line 82 with the sign flipped
NextYStepUp(y) == (IF NeedsNewPage(y) THEN height - TopOffset ELSE y) + LineStep

\* lines 78-82: the cursor after one iteration
NextY(y) == (IF NeedsNewPage(y) THEN height - TopOffset ELSE y) - LineStep

\* lines 77-82, one iteration of the loop
LoopIteration ==
    /\ pc = "loop"
    /\ idx < Len(warning_text)
    /\ LET line == warning_text[idx + 1]
           todo == IterationCalls(y_position, line)
       IN  \/ /\ calls' = calls \o todo
              /\ y_position' = NextY(y_position)
              /\ idx' = idx + 1
              /\ UNCHANGED <<pc, raised>>
           \/ \* showPage raises
              /\ NeedsNewPage(y_position)
              /\ \E k \in ExceptionKinds : Raise(k)
              /\ UNCHANGED <<calls, y_position, idx>>
           \/ \* drawString raises
              /\ \E k \in ExceptionKinds : Raise(k)
              /\ calls' = calls \o SubSeq(todo, 1, Len(todo) - 1)
              /\ y_position' = IF NeedsNewPage(y_position)
                                  THEN height - TopOffset ELSE y_position
              /\ UNCHANGED idx
    /\ UNCHANGED <<libAvailable, warning_text, hp, output, uncaught, lastRun>>

\* seeded fault: lines 84-85 indented into the loop body
SaveInsideLoop ==
    /\ pc = "loop"
    /\ idx > 0
    /\ \/ /\ calls' = Append(calls, SaveCall)
          /\ pc' = IF idx = Len(warning_text) THEN "report" ELSE "loop"
          /\ UNCHANGED raised
       \/ /\ \E k \in ExceptionKinds : Raise(k)
          /\ UNCHANGED calls
    /\ UNCHANGED <<libAvailable, warning_text, hp, idx, y_position, output,
                   uncaught, lastRun>>

\* lines 84-85
Save ==
    /\ pc = "loop"
    /\ idx = Len(warning_text)
    /\ \/ /\ calls' = Append(calls, SaveCall)
          /\ pc' = "report"
          /\ UNCHANGED raised
       \/ /\ \E k \in ExceptionKinds : Raise(k)
          /\ UNCHANGED calls
    /\ UNCHANGED <<libAvailable, warning_text, hp, idx, y_position, output,
                   uncaught, lastRun>>

\* lines 86-87, then the function returns and the script ends
ReportSuccess ==
    /\ pc = "report"
    /\ output' = output \o SuccessLines
    /\ pc' = "done"
    /\ UNCHANGED <<libAvailable, warning_text, hp, idx, y_position, calls,
                   raised, uncaught, lastRun>>

\* lines 92-94
HandleImportError ==
    /\ pc = "except"
    /\ Handler(raised) = "ImportError"
    /\ output' = output \o NotInstalledLines
    /\ pc' = "done"
    /\ UNCHANGED <<libAvailable, warning_text, hp, idx, y_position, calls,
                   raised, uncaught, lastRun>>

\* lines 95-96
HandleException ==
    /\ pc = "except"
    /\ Handler(raised) = "Exception"
    /\ output' = Append(output, ErrorLine(raised))
    /\ pc' = "done"
    /\ UNCHANGED <<libAvailable, warning_text, hp, idx, y_position, calls,
                   raised, uncaught, lastRun>>

\* lines 90-96: an exception that is no Exception matches neither handler
Propagate ==
    /\ pc = "except"
    /\ Handler(raised) = "none"
    /\ uncaught' = raised
    /\ pc' = "done"
    /\ UNCHANGED <<libAvailable, warning_text, hp, idx, y_position, calls,
                   output, raised, lastRun>>

\* the (x, y, text) triples passed to drawString, in order
DrawCalls(cs) == SelectSeq(cs, LAMBDA c : c.op = "drawString")

Triple(c) == <<c.x, c.y, c.text>>

DrawTriples(cs) == [i \in 1..Len(DrawCalls(cs)) |-> Triple(DrawCalls(cs)[i])]

\* create_test_pdf returned normally
Succeeded == pc = "done" /\ Len(calls) > 0 /\ calls[Len(calls)].op = "save"

\* line 1: the script is started once more, after a run that ended
RunAgain ==
    /\ pc = "done"
    /\ lastRun = <<>>
    /\ Succeeded
    /\ lastRun' = DrawTriples(calls)
    /\ pc' = "import"
    /\ hp' = 0
    /\ idx' = 0
    /\ y_position' = 0
    /\ calls' = <<>>
    /\ output' = <<>>
    /\ raised' = "none"
    /\ uncaught' = "none"
    /\ UNCHANGED <<libAvailable, warning_text>>

Next ==
    \/ ModuleImports
    \/ CreateCanvas
    \/ HeaderStep
    \/ StartBody
    \/ LoopIteration
    \/ Save
    \/ ReportSuccess
    \/ HandleImportError
    \/ HandleException
    \/ Propagate
    \/ RunAgain

Spec == Init /\ [][Next]_vars

SpecAnyList == InitAnyList /\ [][Next]_vars

----------------------------------------------------------------------------
(* Helpers of the properties *)

\* the drawString and showPage calls, in order
Marks(cs) == SelectSeq(cs, LAMBDA c : c.op \in {"drawString", "showPage"})

\* the drawString calls of the loop: those after the header's
BodyDraws(cs) ==
    LET ds == DrawCalls(cs)
        nh == Len(DrawCalls(Header(<<2026, 11, 4>>)))
    IN  IF Len(ds) > nh THEN SubSeq(ds, nh + 1, Len(ds)) ELSE <<>>

Count(cs, op) == Len(SelectSeq(cs, LAMBDA c : c.op = op))

----------------------------------------------------------------------------
(* C1 *)

\* C1: a run without the drawing library ends normally, having printed the
\* 'ReportLab not installed' message of the ImportError handler, with no
\* exception leaving the script.
C1_MissingLibraryReported ==
    (pc = "done" /\ ~libAvailable) =>
        (output = NotInstalledLines /\ uncaught = "none")

----------------------------------------------------------------------------
(* C2 *)

\* C2 as stated: any two runs of create_test_pdf pass the same sequence of
\* (x, y, text) triples to drawString.
C2_SameTriplesEveryRun ==
    (Succeeded /\ lastRun # <<>>) => DrawTriples(calls) = lastRun

\* C2 amended: the triples a run has passed to drawString agree, position by
\* position, with those of any other run in x and y, and in text at every
\* position but the fifth (the Date line), whose text is "Date: " followed
\* by the day of the run formatted as '%B %d, %Y'; a run that returns
\* normally passes as many triples as the other run did.
C2_SameTriplesButDate ==
    lastRun # <<>> =>
        LET ts == DrawTriples(calls)
        IN  /\ Len(ts) <= Len(lastRun)
            /\ Succeeded => Len(ts) = Len(lastRun)
            /\ \A i \in 1..Len(ts) :
                  /\ ts[i][1] = lastRun[i][1]
                  /\ ts[i][2] = lastRun[i][2]
                  /\ IF i = 5
                        THEN ts[i][3] \in { "Date: " \o strftime(d) : d \in Dates }
                        ELSE ts[i][3] = lastRun[i][3]

\* two complete runs on different days, whose Date lines differ
C2_Witness ==
    /\ Succeeded
    /\ lastRun # <<>>
    /\ DrawTriples(calls)[5] # lastRun[5]

----------------------------------------------------------------------------
(* C3 *)

\* C3: an iteration that starts with the cursor below 50 calls showPage,
\* draws its line at height - 50 = 742 and leaves the cursor at 742 - 15;
\* an iteration that starts with the cursor at 50 or above calls no showPage,
\* draws its line at the cursor and leaves the cursor 15 lower.
C3_LoopIteration ==
    [][ (pc = "loop" /\ idx' = idx + 1) =>
          LET line == warning_text[idx + 1]
          IN  IF y_position < 50
                 THEN /\ calls' = calls \o << [op |-> "showPage"],
                                              [op |-> "drawString", x |-> 50,
                                               y |-> 792 - 50, text |-> line] >>
                      /\ y_position' = (792 - 50) - 15
                 ELSE /\ calls' = Append(calls, [op |-> "drawString", x |-> 50,
                                                 y |-> y_position, text |-> line])
                      /\ y_position' = y_position - 15 ]_vars

\* an iteration has started a new page and a later one has drawn on it
C3_Witness ==
    /\ pc = "loop"
    /\ Count(calls, "showPage") = 1
    /\ y_position = (792 - 50) - 30

----------------------------------------------------------------------------
(* C4 *)

\* C4: the canvas is opened first, save is called at most once and nothing
\* is called on the canvas after it, the success message is printed only
\* once save has returned, and a run that reports success has called save
\* exactly once.
C4_Order ==
    /\ \A i \in 1..Len(calls) :
          /\ (calls[i].op = "Canvas") <=> (i = 1)
          /\ (calls[i].op = "save") => (i = Len(calls))
    /\ output # <<>> /\ output[1] = SuccessLines[1] =>
          /\ Count(calls, "save") = 1
          /\ calls[Len(calls)].op = "save"
          /\ pc = "done"
    /\ pc \in {"canvas", "header", "loop"} => Count(calls, "save") = 0
    /\ pc = "report" => Count(calls, "save") = 1 /\ output = <<>>

\* a run has drawn, saved and reported success
C4_Witness ==
    /\ pc = "done"
    /\ output = SuccessLines
    /\ Count(calls, "drawString") = 35
    /\ calls[Len(calls)].op = "save"

----------------------------------------------------------------------------
(* C5 *)

\* C5: with the library available, a run that has ended has printed exactly
\* one outcome: the success lines when no step raised; when a step raised an
\* ImportError the 'ReportLab not installed' lines, and when it raised any
\* other Exception the 'Error creating PDF' line, in both cases without the
\* success message and without the exception leaving the script.  The
\* success message is never printed once a step has raised.
C5_OneOutcome ==
    /\ raised # "none" => (output = <<>> \/ output[1] # SuccessLines[1])
    /\ (pc = "done" /\ libAvailable) =>
          /\ raised = "none" => (output = SuccessLines /\ uncaught = "none")
          /\ raised \in {"ImportError", "ModuleNotFoundError"} =>
                (output = NotInstalledLines /\ uncaught = "none")
          /\ raised = "OSError" =>
                /\ output = << "\\u274c Error creating PDF: OSError" >>
                /\ uncaught = "none"

\* a drawing step of the loop raised an ImportError and the run has ended
C5_Witness ==
    /\ pc = "done"
    /\ libAvailable
    /\ raised = "ImportError"
    /\ idx > 0
    /\ output = NotInstalledLines

----------------------------------------------------------------------------
(* C6 *)

\* C6: every drawString call has x = 50 and 50 <= y <= height - 50 = 742,
\* for the header calls and for every iteration of the loop over a list of
\* any length.
C6_WithinMargins ==
    \A i \in 1..Len(calls) :
        calls[i].op = "drawString" =>
            /\ calls[i].x = 50
            /\ 50 <= calls[i].y
            /\ calls[i].y <= 792 - 50

\* the loop has drawn the last line that fits on a page, broken the page and
\* drawn on the next one
C6_Witness ==
    /\ Count(calls, "showPage") >= 1
    /\ \E i \in 1..Len(calls) : calls[i].op = "drawString" /\ calls[i].y < 50 + 15
    /\ calls[Len(calls)].op = "drawString"
    /\ calls[Len(calls)].y = 792 - 50

----------------------------------------------------------------------------
(* C7 *)

\* C7: the loop over the literal list makes one drawString call per element,
\* in list order, the k-th call carrying the k-th string (the empty strings
\* included), and has made 26 calls when it ends.
C7_OneCallPerElement ==
    LET body == BodyDraws(calls)
    IN  /\ Len(body) <= 26
        /\ \A k \in 1..Len(body) : body[k].text = WarningText[k]
        /\ pc = "loop" => Len(body) = idx
        /\ (pc = "report" \/ Succeeded) => (Len(body) = 26 /\ idx = 26)
        /\ (pc = "loop" /\ Len(body) = 26) => ~ENABLED LoopIteration

\* the loop has ended, having drawn the 26 lines
C7_Witness ==
    /\ pc = "report"
    /\ idx = 26
    /\ BodyDraws(calls)[2].text = ""
    /\ BodyDraws(calls)[26].text = "HR Department"

----------------------------------------------------------------------------
(* C8 *)

\* C8: on the literal list the loop never calls showPage, every drawString
\* of the loop is at y >= 157, and the document has a single page.
C8_SinglePage ==
    /\ Count(calls, "showPage") = 0
    /\ \A k \in 1..Len(BodyDraws(calls)) : BodyDraws(calls)[k].y >= 157
    /\ pc = "loop" /\ idx < Len(warning_text) => y_position >= 157

\* the last line of the literal list has been drawn, at y = 157
C8_Witness ==
    /\ Succeeded
    /\ Len(BodyDraws(calls)) = 26
    /\ BodyDraws(calls)[26].y = 157

----------------------------------------------------------------------------
(* C9 *)

\* C9: of two successive drawString calls on the same page the second is
\* strictly lower; successive header calls are at least 15 apart, the first
\* body line is 30 below the last header line, and successive body lines on
\* the same page are exactly 15 apart.
C9_NoOverlap ==
    LET ms == Marks(calls)
    IN  \A i \in 1..(Len(ms) - 1) :
            (ms[i].op = "drawString" /\ ms[i + 1].op = "drawString") =>
                /\ ms[i].y > ms[i + 1].y
                /\ i < 9 => ms[i].y - ms[i + 1].y >= 15
                /\ i = 9 => ms[i].y - ms[i + 1].y = 30
                /\ i > 9 => ms[i].y - ms[i + 1].y = 15

\* header, first page of the body and two lines of a second page are drawn
C9_Witness ==
    LET ms == Marks(calls)
    IN  /\ Len(ms) > 12
        /\ ms[Len(ms) - 2].op = "showPage"
        /\ ms[Len(ms) - 1].op = "drawString"
        /\ ms[Len(ms)].op = "drawString"

====
